---- MODULE Spec2Model ----
(***************************************************************************)
(* Model of tools/trackCounting.py: the track-counting pass                *)
(* createJetTreeTC, the histogram pass createDiscrHist with                *)
(* drawEffVsCutCurve, and the ROC builder createROCfromEffVsCutCurves with *)
(* drawROCfromEffVsCutCurves.                                              *)
(*                                                                         *)
(* Numbers.  Track_IPsig values and histogram contents are integers.  A    *)
(* value stored in one of the output vectors is a decimal pair             *)
(* <<m, e>> standing for m * 10^e, so that -10**10 is <<-1, 10>> and an    *)
(* impact-parameter significance s is <<s, 0>>.  An efficiency (a quotient *)
(* of two counts) is the unreduced fraction <<num, den>>.                  *)
(***************************************************************************)
EXTENDS Integers, Sequences, FiniteSets, TLC

\* ------------------------------------------------------------------ bounds
MaxJets == 3        \* jets read over the whole pass
MaxTracks == 3      \* tracks read over the whole pass
MaxBins == 3        \* bins of a histogram
MaxContent == 2     \* content of a bin of a histogram given to drawEffVsCutCurve
MaxTotal == 3       \* the total given to drawEffVsCutCurve
MaxRows == 3        \* rows of the tree read by createDiscrHist
MaxPoints == 2      \* points of an efficiency curve given to the ROC builder

\* ----------------------------------------------------------- input domains
\* Track_IPsig of a track, and the value the MVA gives it.
IPsigValues == {2, 5}
MVAValues == {1, 2}
\* The selections configured, as (trackCut is given, trackMVA): cuts alone,
\* an MVA with increasing or decreasing cut values (with and without cuts),
\* and an MVA with an empty list of cut values.
NoMVA == [present |-> FALSE, cuts |-> <<>>]
MVA(cuts) == [present |-> TRUE, cuts |-> cuts]
Selections == {<<TRUE, NoMVA>>, <<FALSE, MVA(<<1, 0>>)>>,
               <<TRUE, MVA(<<0, 1>>)>>, <<FALSE, MVA(<<>>)>>}
\* Lower end of a histogram's range and the width of its bins.
HistLows == {-1}
BinWidths == {2}
\* Efficiency values of the points of a stored efficiency-vs-cut graph.
EffLevels == {1, 2}
\* (Jet_genpt, Jet_flavour) of the jets read
JetKinds == {<<8, 5>>, <<8, -4>>, <<8, 21>>, <<8, -21>>, <<7, 5>>}

VARIABLES
    pc,              \* position in the running operation
    trackCut,        \* createJetTreeTC: TRUE iff trackCut is not None
    trackMVA,        \* createJetTreeTC: [present, cuts]
    jetsRead,        \* jets of the chain already started
    Jet_genpt, Jet_flavour, Jet_nLastTrack,   \* the current jet
    track,           \* loop variable of line 135
    selTracks,       \* per cut, the list of (track, IPsig) pairs
    cutI,            \* loop variable i of lines 177 and 207
    nTotTracks,      \* [B, C, Light, PU] totals
    nSelTracks,      \* [B, C, Light, PU] each a list with one counter per cut
    outVariables,    \* the four output vectors
    nFills,          \* outTree.Fill() calls made for the current jet
    outTree,         \* number of records filled into jetTree
    written,         \* outTree.Write() and outFile.Close() done
    nVisited,        \* tracks visited by the loop of line 135
    crash,           \* createJetTreeTC: what ended the pass early, or "none"
    histDict,        \* createDiscrHist: [bins, range, discreff] of the histogram
    cutTotal,        \* createDiscrHist: cut["total"] per category
    cutDict,         \* createDiscrHist: bin contents 1..bins per category
    rowsRead,        \* createDiscrHist: tree entries read
    graphI,          \* createDiscrHist: position in jetCutList, line 269
    graphs,          \* createDiscrHist: the curve written per category
    myTH1,           \* drawEffVsCutCurve: the histogram argument
    total,           \* drawEffVsCutCurve: the total argument
    myGraph,         \* drawEffVsCutCurve: what the call produced
    sigGraphs,       \* createROC...: signal graph per discriminant
    bkgGraphDict,    \* createROC...: background graph per category, discriminant
    bkgDone,         \* createROC...: categories the loop of line 320 has taken
    bkg,             \* createROC...: the category of the current iteration
    discriI,         \* createROC...: position in discriminants, line 324
    rocWritten       \* createROC...: the curves written to outputFile

tcVars == <<pc, trackCut, trackMVA, jetsRead, Jet_genpt, Jet_flavour,
            Jet_nLastTrack, track, selTracks, cutI, nTotTracks, nSelTracks,
            outVariables, nFills, outTree, written, nVisited, crash>>

tcVars_noPc == <<trackCut, trackMVA, jetsRead, Jet_genpt, Jet_flavour,
                 Jet_nLastTrack, track, selTracks, cutI, nTotTracks,
                 nSelTracks, outVariables, nFills, outTree, written, nVisited,
                 crash>>

histVars == <<histDict, cutTotal, cutDict, rowsRead, graphI, graphs>>

effVars == <<myTH1, total, myGraph>>

rocVars == <<sigGraphs, bkgGraphDict, bkgDone, bkg, discriI, rocWritten>>

vars == <<tcVars, histVars, effVars, rocVars>>

\* ------------------------------------------------------------- arithmetic
Abs(x) == IF x < 0 THEN -x ELSE x

\* -10**10 as a decimal pair, and the float holding a significance.
Sentinel == <<-1, 10>>
Num(x) == <<x, 0>>

\* ---------------------------------------------------------- createJetTreeTC
nCuts == IF trackMVA.present THEN Len(trackMVA.cuts) ELSE 1

\* The classification with the test of line 137 written "> 8".
CategoriesStrictGenpt(genpt, flavour) ==
    IF genpt > 8
        THEN (IF Abs(flavour) = 5 THEN {"B"} ELSE {})
             \cup (IF Abs(flavour) = 4 THEN {"C"} ELSE {})
             \cup (IF Abs(flavour) < 4 \/ flavour = 21 THEN {"Light"} ELSE {})
        ELSE {"PU"}

\* Lines 137-145 and 160-168: the counter a track of a jet goes to, as the
\* set of counters incremented (the three tests of the >= 8 branch are
\* separate ifs without an else).
Categories(genpt, flavour) ==
    IF genpt >= 8
        THEN (IF Abs(flavour) = 5 THEN {"B"} ELSE {})
             \cup (IF Abs(flavour) = 4 THEN {"C"} ELSE {})
             \cup (IF Abs(flavour) < 4 \/ flavour = 21 THEN {"Light"} ELSE {})
        ELSE {"PU"}

CategoryNames == {"B", "C", "Light", "PU"}

\* trackMVASelector.evaluate, line 59.
MVAEvaluate(mvaValue, cuts) == [k \in 1..Len(cuts) |-> mvaValue > cuts[k]]

\* Lines 147-156: the per-cut decision for one track.
KeepTrack(cutResult, mvaValue) ==
    LET k0 == [k \in 1..nCuts |-> TRUE]
        k1 == IF trackCut THEN [k \in 1..nCuts |-> k0[k] /\ cutResult] ELSE k0
        any1 == \E k \in 1..nCuts : k1[k]
        k2 == IF any1 /\ trackMVA.present
                  THEN [k \in 1..nCuts |->
                            k1[k] /\ MVAEvaluate(mvaValue, trackMVA.cuts)[k]]
                  ELSE k1
    IN  k2

EmptyVectors == [Jet_nseltracks |-> <<>>, Jet_Ip |-> <<>>,
                 TCHE |-> <<>>, TCHP |-> <<>>]

\* The state of an operation that is not running.
TCIdle ==
    /\ trackCut = FALSE
    /\ trackMVA = [present |-> FALSE, cuts |-> <<>>]
    /\ jetsRead = 0
    /\ Jet_genpt = 0 /\ Jet_flavour = 0 /\ Jet_nLastTrack = 0
    /\ track = 0
    /\ selTracks = <<>>
    /\ cutI = 1
    /\ nTotTracks = <<>>
    /\ nSelTracks = <<>>
    /\ outVariables = <<>>
    /\ nFills = 0
    /\ outTree = 0
    /\ written = FALSE
    /\ nVisited = 0
    /\ crash = "none"

HistIdle ==
    /\ histDict = [bins |-> 0, xlow |-> 0, width |-> 0, discreff |-> FALSE]
    /\ cutTotal = <<>>
    /\ cutDict = <<>>
    /\ rowsRead = 0
    /\ graphI = 1
    /\ graphs = <<>>

EffIdle ==
    /\ myTH1 = <<>>
    /\ total = 0
    /\ myGraph = <<>>

ROCIdle ==
    /\ sigGraphs = <<>>
    /\ bkgGraphDict = <<>>
    /\ bkgDone = {}
    /\ bkg = "none"
    /\ discriI = 1
    /\ rocWritten = <<>>

TCInit ==
    /\ HistIdle /\ EffIdle /\ ROCIdle
    /\ pc = "jets"
    /\ \E sel \in Selections : trackCut = sel[1] /\ trackMVA = sel[2]
    /\ jetsRead = 0
    /\ Jet_genpt = 0 /\ Jet_flavour = 0 /\ Jet_nLastTrack = 0
    /\ track = 0
    /\ selTracks = [k \in 1..nCuts |-> <<>>]
    /\ cutI = 1
    /\ nTotTracks = [c \in CategoryNames |-> 0]
    /\ nSelTracks = [c \in CategoryNames |-> [k \in 1..nCuts |-> 0]]
    /\ outVariables = EmptyVectors
    /\ nFills = 0
    /\ outTree = 0
    /\ written = FALSE
    /\ nVisited = 0
    /\ crash = "none"

\* Lines 129-132: the next jet of the chain is loaded, its track range
\* [Jet_nFirstTrack, Jet_nLastTrack) read and selTracks reset.  The ranges of
\* successive jets follow each other in the track arrays.
JetStart ==
    /\ pc = "jets"
    /\ jetsRead < MaxJets
    /\ \E jet \in JetKinds, n \in 0..(MaxTracks - nVisited) :
        /\ Jet_genpt' = jet[1]
        /\ Jet_flavour' = jet[2]
        /\ track' = nVisited
        /\ Jet_nLastTrack' = nVisited + n
    /\ jetsRead' = jetsRead + 1
    /\ selTracks' = [k \in 1..nCuts |-> <<>>]
    /\ nFills' = 0
    /\ pc' = "tracks"
    /\ UNCHANGED <<histVars, effVars, rocVars,
                   trackCut, trackMVA, cutI, nTotTracks, nSelTracks,
                   outVariables, outTree, written, nVisited, crash>>

\* Lines 135-171: one iteration of the track loop.
Track ==
    /\ pc = "tracks"
    /\ track < Jet_nLastTrack
    /\ \E cutResult \in BOOLEAN, mvaValue \in MVAValues, ipsig \in IPsigValues :
        LET cats == Categories(Jet_genpt, Jet_flavour)
            keep == KeepTrack(cutResult, mvaValue)
        IN  /\ nTotTracks' = [c \in CategoryNames |->
                    IF c \in cats THEN nTotTracks[c] + 1 ELSE nTotTracks[c]]
            /\ nSelTracks' = [c \in CategoryNames |-> [k \in 1..nCuts |->
                    IF c \in cats /\ keep[k]
                        THEN nSelTracks[c][k] + 1 ELSE nSelTracks[c][k]]]
            /\ selTracks' = [k \in 1..nCuts |->
                    IF keep[k] THEN Append(selTracks[k], <<track, ipsig>>)
                               ELSE selTracks[k]]
    /\ track' = track + 1
    /\ nVisited' = nVisited + 1
    /\ UNCHANGED <<histVars, effVars, rocVars,
                   pc, trackCut, trackMVA, jetsRead, Jet_genpt, Jet_flavour,
                   Jet_nLastTrack, cutI, outVariables, nFills, outTree,
                   written, crash>>

\* Line 135 exhausted, line 176.
TracksDone ==
    /\ pc = "tracks"
    /\ track >= Jet_nLastTrack
    /\ pc' = "emit"
    /\ cutI' = 1
    /\ UNCHANGED <<histVars, effVars, rocVars,
                   trackCut, trackMVA, jetsRead, Jet_genpt, Jet_flavour,
                   Jet_nLastTrack, track, selTracks, nTotTracks, nSelTracks,
                   outVariables, nFills, outTree, written, nVisited, crash>>

\* Line 184: sorted() returns a new list, which is dropped; the list that
\* lines 187-193 read is the argument, in the order the tracks were appended.
SortedInPlace(list) == list

\* v[i] = x on a std::vector through its operator[], i counted from 0.
\* Inside the vector the element is replaced.  Outside it the behaviour is
\* undefined: the outcomes are the vector as it was (the store lands beyond
\* the elements) or a fault.
VectorSetOutcomes(v, i, x) ==
    IF i < Len(v)
        THEN {[fault |-> FALSE, v |-> [v EXCEPT ![i + 1] = x]]}
        ELSE {[fault |-> FALSE, v |-> v], [fault |-> TRUE, v |-> v]}

\* Lines 177-193 for one value of i (cutI - 1 is the 0-based i).
EmitCut ==
    /\ pc = "emit"
    /\ cutI <= nCuts
    /\ LET list == SortedInPlace(selTracks[cutI])
           n == Len(list)
       IN  IF n = 0
             THEN UNCHANGED <<outVariables, crash, pc>> /\ cutI' = cutI + 1
             ELSE LET pushed == [outVariables EXCEPT
                                    !.Jet_nseltracks = Append(@, n),
                                    !.Jet_Ip = Append(@, Num(list[1][2])),
                                    !.TCHE = Append(@, Sentinel),
                                    !.TCHP = Append(@, Sentinel)]
                  IN  \E he \in (IF n > 1
                                   THEN VectorSetOutcomes(pushed.TCHE, cutI - 1,
                                                          Num(list[2][2]))
                                   ELSE {[fault |-> FALSE, v |-> pushed.TCHE]}),
                         hp \in (IF n > 2
                                   THEN VectorSetOutcomes(pushed.TCHP, cutI - 1,
                                                          Num(list[3][2]))
                                   ELSE {[fault |-> FALSE, v |-> pushed.TCHP]}) :
                        /\ outVariables' = [pushed EXCEPT !.TCHE = he.v,
                                                          !.TCHP = hp.v]
                        /\ IF he.fault \/ hp.fault
                             THEN crash' = "vector" /\ pc' = "crashed"
                                  /\ cutI' = cutI
                             ELSE crash' = crash /\ pc' = pc
                                  /\ cutI' = cutI + 1
    /\ UNCHANGED <<histVars, effVars, rocVars,
                   trackCut, trackMVA, jetsRead, Jet_genpt, Jet_flavour,
                   Jet_nLastTrack, track, selTracks, nTotTracks, nSelTracks,
                   nFills, outTree, written, nVisited>>

\* Line 176/179: selectedJet after the loop of line 177.
selectedJet == \E k \in 1..nCuts : Len(selTracks[k]) > 0

\* Lines 195-203: the record is filled when selectedJet, the vectors cleared.
FillJet ==
    /\ pc = "emit"
    /\ cutI > nCuts
    /\ IF selectedJet
         THEN /\ outTree' = outTree + 1
              /\ nFills' = nFills + 1
         ELSE UNCHANGED <<outTree, nFills>>
    /\ outVariables' = EmptyVectors
    /\ pc' = "jets"
    /\ UNCHANGED <<histVars, effVars, rocVars,
                   trackCut, trackMVA, jetsRead, Jet_genpt, Jet_flavour,
                   Jet_nLastTrack, track, selTracks, cutI, nTotTracks,
                   nSelTracks, written, nVisited, crash>>

\* Line 123 exhausted, line 205.
EventsDone ==
    /\ pc = "jets"
    /\ pc' = "report"
    /\ cutI' = 1
    /\ UNCHANGED <<histVars, effVars, rocVars,
                   trackCut, trackMVA, jetsRead, Jet_genpt, Jet_flavour,
                   Jet_nLastTrack, track, selTracks, nTotTracks, nSelTracks,
                   outVariables, nFills, outTree, written, nVisited, crash>>

\* float(100*sel)/tot of lines 212-215: Python raises ZeroDivisionError when
\* tot is 0.
EfficiencyRaises(tot) == tot = 0

\* Lines 207-215 for one value of i: the four divisions.
Report ==
    /\ pc = "report"
    /\ cutI <= nCuts
    /\ IF \E c \in CategoryNames : EfficiencyRaises(nTotTracks[c])
         THEN crash' = "ZeroDivisionError" /\ pc' = "crashed" /\ cutI' = cutI
         ELSE crash' = crash /\ pc' = pc /\ cutI' = cutI + 1
    /\ UNCHANGED <<histVars, effVars, rocVars,
                   trackCut, trackMVA, jetsRead, Jet_genpt, Jet_flavour,
                   Jet_nLastTrack, track, selTracks, nTotTracks, nSelTracks,
                   outVariables, nFills, outTree, written, nVisited>>

\* Lines 217-219.
WriteTree ==
    /\ pc = "report"
    /\ cutI > nCuts
    /\ written' = TRUE
    /\ pc' = "done"
    /\ UNCHANGED <<histVars, effVars, rocVars,
                   trackCut, trackMVA, jetsRead, Jet_genpt, Jet_flavour,
                   Jet_nLastTrack, track, selTracks, cutI, nTotTracks,
                   nSelTracks, outVariables, nFills, outTree, nVisited, crash>>

TCNext ==
    \/ JetStart
    \/ Track
    \/ TracksDone
    \/ EmitCut
    \/ FillJet
    \/ EventsDone
    \/ Report
    \/ WriteTree

SpecTC == TCInit /\ [][TCNext]_vars

\* ------------------------------------------------------- drawEffVsCutCurve
\* A TH1D with bins of integer width: [bins, xlow, width, content], content
\* the sequence of the contents of bins 1..bins.
RECURSIVE SumSeq(_)
SumSeq(q) == IF q = <<>> THEN 0 ELSE Head(q) + SumSeq(Tail(q))

\* TH1::Integral(): the sum over bins 1..bins.
Integral(h) == SumSeq(h.content)

\* TH1::GetBinLowEdge(i).
GetBinLowEdge(h, i) == h.xlow + (i - 1) * h.width

\* The loop of line 290 run up to the last bin, xrange(2, GetNbinsX() + 1).
RECURSIVE EffLoopToLastBin(_, _, _)
EffLoopToLastBin(h, i, acc) ==
    IF i > h.bins
        THEN acc
        ELSE LET integral == acc.integral - h.content[i - 1]
             IN  EffLoopToLastBin(h, i + 1,
                         [discrV |-> Append(acc.discrV, h.xlow + (i - 1) * h.width),
                          integral |-> integral,
                          effV |-> Append(acc.effV, integral)])

\* Lines 290-293: the loop over i in xrange(2, GetNbinsX()), from i on.
RECURSIVE EffLoop(_, _, _)
EffLoop(h, i, acc) ==
    IF i >= h.bins
        THEN acc
        ELSE LET integral == acc.integral - h.content[i - 1]
             IN  EffLoop(h, i + 1,
                         [discrV |-> Append(acc.discrV, GetBinLowEdge(h, i)),
                          integral |-> integral,
                          effV |-> Append(acc.effV, integral)])

\* Line 297 with the total never taken as given.
TotalNeverGiven(tot) == FALSE

\* Line 297: "total is not 0".
TotalGiven(tot) == tot # 0

\* Lines 286-303.  The result is [raised, warned, discrV, effV]: raised when
\* the division of line 301 is by zero (ZeroDivisionError, nothing returned),
\* effV the fractions <<x, integral>>.
drawEffVsCutCurve(h, tot) ==
    LET start == [discrV |-> <<GetBinLowEdge(h, 1)>>,
                  integral |-> Integral(h),
                  effV |-> <<Integral(h)>>]
        loop == EffLoop(h, 2, start)
        warned == TotalGiven(tot) /\ tot < loop.integral
        integral == IF TotalGiven(tot) THEN tot ELSE loop.integral
    IN  IF integral = 0
            THEN [raised |-> TRUE, warned |-> warned, discrV |-> <<>>,
                  effV |-> <<>>]
            ELSE [raised |-> FALSE, warned |-> warned,
                  discrV |-> loop.discrV,
                  effV |-> [k \in 1..Len(loop.effV) |->
                                <<loop.effV[k], integral>>]]

NoGraph == [raised |-> FALSE, warned |-> FALSE, discrV |-> <<>>, effV |-> <<>>]

EffInit ==
    /\ TCIdle /\ HistIdle /\ ROCIdle
    /\ pc = "eff-call"
    /\ myTH1 \in UNION {
            {[bins |-> n, xlow |-> lo, width |-> w, content |-> c] :
                lo \in HistLows, w \in BinWidths, c \in [1..n -> 0..MaxContent]} :
            n \in 1..MaxBins}
    /\ total \in 0..MaxTotal
    /\ myGraph = NoGraph

\* A call of drawEffVsCutCurve(myTH1, total).
EffCall ==
    /\ pc = "eff-call"
    /\ myGraph' = drawEffVsCutCurve(myTH1, total)
    /\ pc' = IF myGraph'.raised THEN "crashed" ELSE "eff-returned"
    /\ UNCHANGED <<myTH1, total>>
    /\ UNCHANGED <<tcVars_noPc, histVars, rocVars>>

EffNext == EffCall

SpecEff == EffInit /\ [][EffNext]_vars

\* ---------------------------------------------------------- createDiscrHist
\* jetCutList, in its order, and the values the histogrammed variable takes
\* (one below the range up to its upper end, which line 256 excludes).
jetCutList == <<"B", "Light">>

xup(h) == h.xlow + h.bins * h.width

RowValues(h) == (h.xlow - 1)..xup(h)

\* Line 256: the value is within [range[0], range[1]).
InRange(h, value) == value >= h.xlow /\ value < xup(h)

\* TH1::Fill(value) for a value within the axis: the bin found gets one more.
Fill(h, content, value) ==
    LET bin == 1 + ((value - h.xlow) \div h.width)
    IN  [content EXCEPT ![bin] = @ + 1]

\* The histogram of category c, as a TH1D.
TH1Of(c) == [bins |-> histDict.bins, xlow |-> histDict.xlow,
             width |-> histDict.width, content |-> cutDict[c]]

HistInit ==
    /\ TCIdle /\ EffIdle /\ ROCIdle
    /\ pc = "hist-fill"
    /\ histDict \in [bins : 1..MaxBins, xlow : HistLows, width : BinWidths,
                     discreff : BOOLEAN]
    /\ cutTotal = [k \in 1..Len(jetCutList) |-> 0]
    /\ cutDict = [k \in 1..Len(jetCutList) |-> [b \in 1..histDict.bins |-> 0]]
    /\ rowsRead = 0
    /\ graphI = 1
    /\ graphs = [k \in 1..Len(jetCutList) |-> NoGraph]

\* Lines 248-257: one entry of the tree.
HistRow ==
    /\ pc = "hist-fill"
    /\ rowsRead < MaxRows
    /\ \E formula \in [1..Len(jetCutList) -> BOOLEAN],
          value \in RowValues(histDict) :
        /\ cutTotal' = [k \in 1..Len(jetCutList) |->
                IF formula[k] THEN cutTotal[k] + 1 ELSE cutTotal[k]]
        /\ cutDict' = [k \in 1..Len(jetCutList) |->
                IF formula[k] /\ InRange(histDict, value)
                    THEN Fill(histDict, cutDict[k], value)
                    ELSE cutDict[k]]
    /\ rowsRead' = rowsRead + 1
    /\ UNCHANGED <<pc, histDict, graphI, graphs>>
    /\ UNCHANGED <<tcVars_noPc, effVars, rocVars>>

\* Line 248 exhausted; lines 259-266.
HistRowsDone ==
    /\ pc = "hist-fill"
    /\ pc' = "hist-graphs"
    /\ graphI' = 1
    /\ UNCHANGED <<histDict, cutTotal, cutDict, rowsRead, graphs>>
    /\ UNCHANGED <<tcVars_noPc, effVars, rocVars>>

\* Lines 269-276 for one cut of jetCutList.
HistGraph ==
    /\ pc = "hist-graphs"
    /\ graphI <= Len(jetCutList)
    /\ IF histDict.discreff
         THEN LET g == drawEffVsCutCurve(TH1Of(graphI), cutTotal[graphI])
              IN  IF g.raised
                    THEN pc' = "crashed" /\ UNCHANGED <<graphs, graphI>>
                    ELSE /\ graphs' = [graphs EXCEPT ![graphI] = g]
                         /\ graphI' = graphI + 1
                         /\ pc' = pc
         ELSE graphI' = graphI + 1 /\ UNCHANGED <<graphs, pc>>
    /\ UNCHANGED <<histDict, cutTotal, cutDict, rowsRead>>
    /\ UNCHANGED <<tcVars_noPc, effVars, rocVars>>

\* Line 278.
HistClose ==
    /\ pc = "hist-graphs"
    /\ graphI > Len(jetCutList)
    /\ pc' = "done"
    /\ UNCHANGED <<histVars, tcVars_noPc, effVars, rocVars>>

HistNext ==
    \/ HistRow
    \/ HistRowsDone
    \/ HistGraph
    \/ HistClose

SpecHist == HistInit /\ [][HistNext]_vars

\* ---------------------------------------------- createROCfromEffVsCutCurves
\* A TGraph is its sequence of points <<x, y>>.
bkgCats == {"C", "Light"}
discriminants == <<"TCHE">>

\* The efficiency-vs-cut graphs a file holds: the k-th point is at cut value
\* k, its efficiency one of EffLevels.
InputGraphs ==
    UNION {{[k \in 1..n |-> <<k, y[k]>>] : y \in [1..n -> EffLevels]} :
           n \in 1..MaxPoints}

\* TGraph::GetN().
GetN(graph) == Len(graph)

\* The test of line 339 catching only a longer signal curve.
CountMismatchOneWay(sigGraph, bkgGraph) == GetN(sigGraph) > GetN(bkgGraph)

\* Lines 339-343: the test that ends the process through sys.exit(1).
CountMismatch(sigGraph, bkgGraph) == GetN(sigGraph) # GetN(bkgGraph)

\* Line 360 with the two arrays exchanged.
ROCGraphExchanged(sigGraph, bkgGraph) ==
    [k \in 1..GetN(sigGraph) |-> <<bkgGraph[k][2], sigGraph[k][2]>>]

\* Lines 345-360: TGraph(nPoints, np.array(sigEff), np.array(bkgEff)), the
\* second argument the x values and the third the y values.
ROCGraph(sigGraph, bkgGraph) ==
    LET nPoints == GetN(sigGraph)
        sigEff == [k \in 1..nPoints |-> sigGraph[k][2]]
        bkgEff == [k \in 1..nPoints |-> bkgGraph[k][2]]
    IN  [k \in 1..nPoints |-> <<sigEff[k], bkgEff[k]>>]

\* Lines 337-360: [exited, graph].
drawROCfromEffVsCutCurves(sigGraph, bkgGraph) ==
    IF CountMismatch(sigGraph, bkgGraph)
        THEN [exited |-> TRUE, graph |-> <<>>]
        ELSE [exited |-> FALSE, graph |-> ROCGraph(sigGraph, bkgGraph)]

\* Lines 311-318: the graphs are read and outputFile is created.
ROCInit ==
    /\ TCIdle /\ HistIdle /\ EffIdle
    /\ pc = "roc-bkg"
    /\ sigGraphs \in [1..Len(discriminants) -> InputGraphs]
    /\ bkgGraphDict \in [bkgCats -> [1..Len(discriminants) -> InputGraphs]]
    /\ bkgDone = {}
    /\ bkg = "none"
    /\ discriI = 1
    /\ rocWritten = [b \in bkgCats |-> [d \in 1..Len(discriminants) |-> <<>>]]

\* Lines 320-322: the next item of bkgGraphDict.items(), a dict whose order
\* is not fixed.
ROCBkg ==
    /\ pc = "roc-bkg"
    /\ \E b \in bkgCats \ bkgDone :
        /\ bkg' = b
        /\ bkgDone' = bkgDone \cup {b}
    /\ discriI' = 1
    /\ pc' = "roc-discri"
    /\ UNCHANGED <<sigGraphs, bkgGraphDict, rocWritten>>
    /\ UNCHANGED <<tcVars_noPc, histVars, effVars>>

\* Lines 324-326 for one discriminant.
ROCDraw ==
    /\ pc = "roc-discri"
    /\ discriI <= Len(discriminants)
    /\ LET myROC == drawROCfromEffVsCutCurves(sigGraphs[discriI],
                                              bkgGraphDict[bkg][discriI])
       IN  IF myROC.exited
             THEN pc' = "exited" /\ UNCHANGED <<rocWritten, discriI>>
             ELSE /\ rocWritten' = [rocWritten EXCEPT
                                        ![bkg][discriI] = myROC.graph]
                  /\ discriI' = discriI + 1
                  /\ pc' = pc
    /\ UNCHANGED <<sigGraphs, bkgGraphDict, bkgDone, bkg>>
    /\ UNCHANGED <<tcVars_noPc, histVars, effVars>>

\* Line 324 exhausted.
ROCDiscriDone ==
    /\ pc = "roc-discri"
    /\ discriI > Len(discriminants)
    /\ pc' = "roc-bkg"
    /\ UNCHANGED <<rocVars, tcVars_noPc, histVars, effVars>>

\* Lines 328-329.
ROCClose ==
    /\ pc = "roc-bkg"
    /\ bkgDone = bkgCats
    /\ pc' = "done"
    /\ UNCHANGED <<rocVars, tcVars_noPc, histVars, effVars>>

ROCNext ==
    \/ ROCBkg
    \/ ROCDraw
    \/ ROCDiscriDone
    \/ ROCClose

SpecROC == ROCInit /\ [][ROCNext]_vars

\* ================================================================== claims
\* Helpers of the statements about createJetTreeTC.

\* The significances of a selected-track list.
RECURSIVE MaxOf(_)
MaxOf(q) ==
    IF Len(q) = 1 THEN q[1]
    ELSE LET m == MaxOf(Tail(q)) IN IF Head(q) >= m THEN Head(q) ELSE m

\* q without its element at position p.
RemoveAt(q, p) == [k \in 1..(Len(q) - 1) |-> IF k < p THEN q[k] ELSE q[k + 1]]

\* The r-th largest element of q (r = 1 the maximum), duplicates counted.
RECURSIVE NthLargest(_, _)
NthLargest(q, r) ==
    LET m == MaxOf(q)
        p == CHOOSE k \in 1..Len(q) : q[k] = m
    IN  IF r = 1 THEN m ELSE NthLargest(RemoveAt(q, p), r - 1)

IPsigs(list) == [k \in 1..Len(list) |-> list[k][2]]

\* Cut k (1-based) has had its turn in the loop of line 177 and its list was
\* not empty, so that the vectors hold an entry for it.
Emitted(k) == pc = "emit" /\ k < cutI /\ Len(selTracks[k]) > 0

\* The position, in each output vector, of the entry pushed for cut k.
EntryPos(k) == Cardinality({j \in 1..k : Len(selTracks[j]) > 0})

\* C1: for every jet and every cut whose selected-track list is not empty,
\* the Jet_Ip value emitted is the maximum Track_IPsig over the tracks
\* selected under that cut, whatever their order in the index range.
C1_TopIsMaximum ==
    \A k \in 1..nCuts :
        Emitted(k) =>
            outVariables.Jet_Ip[EntryPos(k)] = Num(MaxOf(IPsigs(selTracks[k])))

\* C2: for every jet and every cut with a non-empty list, TCHE is -10^10
\* exactly when fewer than 2 tracks are selected and otherwise the 2nd
\* largest selected significance, and TCHP is -10^10 exactly when fewer than
\* 3 are selected and otherwise the 3rd largest.
C2_SecondAndThird ==
    \A k \in 1..nCuts :
        Emitted(k) =>
            LET sigs == IPsigs(selTracks[k])
                p == EntryPos(k)
            IN  /\ outVariables.TCHE[p] =
                      (IF Len(sigs) < 2 THEN Sentinel
                                        ELSE Num(NthLargest(sigs, 2)))
                /\ outVariables.TCHP[p] =
                      (IF Len(sigs) < 3 THEN Sentinel
                                        ELSE Num(NthLargest(sigs, 3)))

\* The work on the current jet has ended, by line 203 or by a fault in the
\* loop of line 177.
JetEnded ==
    \/ pc = "jets" /\ jetsRead > 0
    \/ pc = "crashed" /\ crash = "vector"

\* The counts emitted are the numbers of accepted tracks, are >= 1, and cuts
\* that accepted nothing have no entry.
CountsEmitted ==
    pc = "emit" =>
        /\ \A k \in 1..nCuts :
              Emitted(k) =>
                  /\ outVariables.Jet_nseltracks[EntryPos(k)] = Len(selTracks[k])
                  /\ outVariables.Jet_nseltracks[EntryPos(k)] >= 1
        /\ Len(outVariables.Jet_nseltracks) =
              Cardinality({k \in 1..nCuts : Emitted(k)})

\* C5: the count emitted for cut i is the number of tracks accepted under i,
\* is >= 1 whenever the jet has an entry for i, the jet has no entry for i
\* when nothing is accepted at i, and the jet's record is written exactly
\* once iff at least one cut has a non-empty selected-track list.
C5_CountsAndRecord ==
    /\ CountsEmitted
    /\ JetEnded => (nFills = (IF selectedJet THEN 1 ELSE 0))

\* The part of C5 that holds of the code: the counts, and the record of every
\* jet whose work ended without a fault.
C5_WithoutFault ==
    /\ CountsEmitted
    /\ (pc = "jets" /\ jetsRead > 0) => (nFills = (IF selectedJet THEN 1 ELSE 0))

TotalsSum == nTotTracks["B"] + nTotTracks["C"] + nTotTracks["Light"]
                + nTotTracks["PU"]

\* C6 as stated: every track visited updates the four totals exactly once,
\* so that the four totals sum to the number of tracks visited.
C6_TotalsSumToVisited ==
    pc \in {"jets", "tracks", "emit", "report", "done", "crashed"}
        => TotalsSum = nVisited

\* The category the statement of C6 gives a jet, "none" when it names none.
ClaimedCategory ==
    IF Jet_genpt < 8 THEN "PU"
    ELSE IF Abs(Jet_flavour) = 5 THEN "B"
    ELSE IF Abs(Jet_flavour) = 4 THEN "C"
    ELSE IF Abs(Jet_flavour) < 4 \/ Jet_flavour = 21 THEN "Light"
    ELSE "none"

\* A step that visits a track: the total of the jet's category, and no
\* other, goes up by one whatever the cuts decide; the selected counter of
\* that category goes up at cut k iff the track joins the list of cut k.
TrackStepCounts ==
    (nVisited' = nVisited + 1) =>
        /\ \A c \in CategoryNames :
              nTotTracks'[c] = nTotTracks[c]
                                 + (IF c = ClaimedCategory THEN 1 ELSE 0)
        /\ \A c \in CategoryNames : \A k \in 1..nCuts :
              nSelTracks'[c][k] = nSelTracks[c][k]
                  + (IF c = ClaimedCategory
                        /\ Len(selTracks'[k]) = Len(selTracks[k]) + 1
                     THEN 1 ELSE 0)

\* C6 as amended: a visited track adds one to the total of its jet's
\* category (B, C, Light, or PU when Jet_genpt < 8 whatever the flavour) and
\* to nothing else; a jet with Jet_genpt >= 8 whose flavour is none of the
\* three adds to no total; the totals never sum to more than the tracks
\* visited.
C6_TotalsPerCategory ==
    /\ [](pc \in {"jets", "tracks", "emit", "report", "done", "crashed"}
            => TotalsSum <= nVisited)
    /\ [][TrackStepCounts]_vars

C6_Witness ==
    /\ pc = "jets"
    /\ nCuts = 2
    /\ nTotTracks["B"] >= 1 /\ nSelTracks["B"][2] >= 1 /\ nSelTracks["B"][1] = 0
    /\ nTotTracks["PU"] >= 1
    /\ TotalsSum < nVisited

\* C7: when a category has zero total tracks at the end of the pass, the
\* report does not crash and the tree is still written and the file closed.
C7_ReportSurvivesZeroTotal ==
    /\ crash # "ZeroDivisionError"
    /\ (pc = "done" => written)

\* ---------------------------------------------- claims on drawEffVsCutCurve
\* C4: called with total == 0 on a histogram with a non-zero integral,
\* drawEffVsCutCurve returns a curve whose first efficiency is 1 (the full
\* integral over the full integral), however the contents are distributed.
C4_FirstEfficiencyIsOne ==
    (pc \in {"eff-returned", "crashed"} /\ total = 0 /\ Integral(myTH1) # 0)
        => /\ ~myGraph.raised
           /\ myGraph.effV[1][1] = myGraph.effV[1][2]

\* C9 as stated: whatever the bin count, the curve returned has bin count - 1
\* points, its cut values the lower edges of bins 1 .. bin count - 1.
C9_OnePointLessThanBins ==
    pc = "eff-returned" =>
        /\ Len(myGraph.discrV) = myTH1.bins - 1
        /\ Len(myGraph.effV) = myTH1.bins - 1
        /\ \A k \in 1..(myTH1.bins - 1) :
              myGraph.discrV[k] = GetBinLowEdge(myTH1, k)

\* C9 as amended: the curve returned has bin count - 1 points when the
\* histogram has 2 bins or more and 1 point when it has 1 bin; its cut values
\* are the lower edges of bins 1 .. (number of points).
C9_PointsOfCurve ==
    pc = "eff-returned" =>
        LET n == IF myTH1.bins >= 2 THEN myTH1.bins - 1 ELSE 1
        IN  /\ Len(myGraph.discrV) = n
            /\ Len(myGraph.effV) = n
            /\ \A k \in 1..n : myGraph.discrV[k] = myTH1.xlow + (k - 1) * myTH1.width

C9_Witness ==
    /\ pc = "eff-returned"
    /\ myTH1.bins = MaxBins
    /\ Len(myGraph.discrV) = MaxBins - 1

\* ------------------------------------------------ claims on createDiscrHist
\* A fraction <<num, den>> is a number of [0, 1].
InUnitInterval(f) == f[2] > 0 /\ 0 <= f[1] /\ f[1] <= f[2]

\* C10: after any sequence of rows each category's total is >= the integral
\* of its histogram, and every efficiency of a curve written for a category
\* with a non-zero total lies in [0, 1].
C10_TotalBoundsIntegral ==
    pc \in {"hist-fill", "hist-graphs", "done"} =>
        \A k \in 1..Len(jetCutList) :
            /\ cutTotal[k] >= Integral(TH1Of(k))
            /\ (cutTotal[k] # 0 /\ graphs[k] # NoGraph) =>
                  \A p \in 1..Len(graphs[k].effV) :
                      InUnitInterval(graphs[k].effV[p])

C10_Witness ==
    /\ pc = "done"
    /\ \E k \in 1..Len(jetCutList) :
          /\ graphs[k] # NoGraph
          /\ Integral(TH1Of(k)) > 0
          /\ cutTotal[k] > Integral(TH1Of(k))
          /\ Len(graphs[k].effV) >= 2

\* ------------------------------------------------ claims on the ROC builder
\* The pair (b, d) has had its turn at line 325.
Drawn(b, d) ==
    \/ b \in bkgDone /\ b # bkg
    \/ b = bkg /\ (d < discriI \/ (d = discriI /\ pc = "exited"))

\* C3 as stated: point i of the curve is (background curve's i-th efficiency,
\* signal curve's i-th efficiency).
C3_BackgroundFirst ==
    pc \in {"roc-bkg", "roc-discri", "exited", "done"} =>
        \A b \in bkgCats : \A d \in 1..Len(discriminants) :
            (Drawn(b, d) /\ Len(sigGraphs[d]) = Len(bkgGraphDict[b][d])) =>
                /\ Len(rocWritten[b][d]) = Len(sigGraphs[d])
                /\ \A i \in 1..Len(sigGraphs[d]) :
                      rocWritten[b][d][i] =
                          <<bkgGraphDict[b][d][i][2], sigGraphs[d][i][2]>>

\* C3 as amended: given curves of the same point count N the result has N
\* points and point i is (signal curve's i-th efficiency, background curve's
\* i-th efficiency): signal efficiency first, background efficiency second.
C3_SignalFirst ==
    pc \in {"roc-bkg", "roc-discri", "exited", "done"} =>
        \A b \in bkgCats : \A d \in 1..Len(discriminants) :
            (Drawn(b, d) /\ Len(sigGraphs[d]) = Len(bkgGraphDict[b][d])) =>
                /\ Len(rocWritten[b][d]) = Len(sigGraphs[d])
                /\ \A i \in 1..Len(sigGraphs[d]) :
                      rocWritten[b][d][i] =
                          <<sigGraphs[d][i][2], bkgGraphDict[b][d][i][2]>>

C3_Witness ==
    /\ pc = "done"
    /\ \E b \in bkgCats :
          /\ Len(rocWritten[b][1]) = MaxPoints
          /\ \E i \in 1..MaxPoints :
                sigGraphs[1][i][2] # bkgGraphDict[b][1][i][2]

\* C8: when the two curves differ in point count the operation aborts and
\* produces nothing: no curve is returned for the pair and none is written
\* for it.
C8_MismatchAborts ==
    pc \in {"roc-bkg", "roc-discri", "exited", "done"} =>
        /\ \A b \in bkgCats : \A d \in 1..Len(discriminants) :
              Len(sigGraphs[d]) # Len(bkgGraphDict[b][d]) =>
                  /\ rocWritten[b][d] = <<>>
                  /\ Drawn(b, d) => pc = "exited"
        /\ pc = "exited" =>
              Len(sigGraphs[discriI]) # Len(bkgGraphDict[bkg][discriI])

C8_Witness ==
    /\ pc = "exited"
    /\ Len(sigGraphs[discriI]) # Len(bkgGraphDict[bkg][discriI])
    /\ rocWritten[bkg][discriI] = <<>>
    /\ \E b \in bkgCats \ {bkg} : rocWritten[b][1] # <<>>

====
